---- MODULE Spec2Model ----
(***************************************************************************)
(* A model of sprotty's indexed model tree (SModelElement, SParentElement, *)
(* SChildElement, SModelRoot, SModelIndex) and of the render-update cache  *)
(* (ViewerCache), as found in                                              *)
(* src/client/src/base/model/smodel-factory.spec.ts.                       *)
(*                                                                         *)
(* The tree part has one SModelRoot and NumElems SChildElement objects;    *)
(* every call of add / remove / removeAll / move is one action, with the   *)
(* statements of the method applied in their source order, so that an      *)
(* exception leaves behind exactly the assignments made before the throw.  *)
(***************************************************************************)
EXTENDS Integers, Sequences, FiniteSets, TLC

\* ------------------------------------------------------------------ bounds
\* Number of SChildElement objects that exist besides the root.
NumElems == 3
\* add is not called on a parent that already has this many children.
MaxChildren == 3
\* add is not called when the children arrays hold this many entries in all.
MaxEntries == 3
\* Number of update / updateHidden / updatePopup calls made in one run.
MaxPush == 4

\* ----------------------------------------------------------------- objects
\* The one SModelRoot instance.
Root == 0
\* JavaScript's undefined for an object reference (a deleted parent property,
\* an id absent from the id2element map).
None == -1
\* The SChildElement instances.
Elems == 1..NumElems
Objs == {Root} \cup Elems

\* Ids given to elements by their creator, the root's id, the empty id (falsy,
\* requests generation) and the pool createRandomId draws from.
GivenIds == {"a", "b"}
RootId == "root"
NoId == ""
RandomIds == {"g1", "g2"}
AllIds == GivenIds \cup RandomIds

VARIABLES
    children,     \* SParentElement.children : Objs -> Seq(Elems)
    parent,       \* SChildElement.parent    : Elems -> Objs \cup {None}
    id,           \* SModelElement.id        : Objs -> STRING
    id2element,   \* SModelIndex.id2element of the root: AllIds -> Elems \cup {None}
    last,         \* the last structural call made, how it ended, and whether
                  \* its arguments were valid for the tree it was made on
    cachedModelRoot,        \* ViewerCache.cachedModelRoot: a snapshot or None
    cachedHiddenModelRoot,  \* ViewerCache.cachedHiddenModelRoot
    cachedPopup,            \* ViewerCache.cachedPopup
    armed,        \* callbacks given to syncer.onEndOfNextFrame, not yet taken by a frame
    arms,         \* scheduleUpdate calls made so far
    due,          \* callbacks of the frame that has ended, still to be invoked
    pc,           \* "idle", or the delegate entry point the flush callback is inside
    frame,        \* display frames ended so far
    flushes,      \* flush callbacks invoked so far
    pushes,       \* update* calls made so far; call number n passes snapshot n
    pushed,       \* per entry point, the snapshot most recently passed to update*
    delivered,    \* the delegate calls made so far, in order
    flushEnd,     \* how the last flush callback ended: "none", "returned" or "threw"
    atBoundary,   \* pushed, as it was when the last frame ended
    atPrevBoundary \* pushed, as it was when the frame before it ended

treeVars == <<children, parent, id, id2element, last>>
cacheVars == <<cachedModelRoot, cachedHiddenModelRoot, cachedPopup>>
schedVars == <<cachedModelRoot, cachedHiddenModelRoot, cachedPopup, armed, arms, due, pc,
               frame, flushes, pushes, pushed, delivered, flushEnd,
               atBoundary, atPrevBoundary>>
vars == <<children, parent, id, id2element, last,
          cachedModelRoot, cachedHiddenModelRoot, cachedPopup, armed, arms, due, pc,
          frame, flushes, pushes, pushed, delivered, flushEnd,
          atBoundary, atPrevBoundary>>

\* ------------------------------------------------- arrays (0-based, as in JS)
\* splice(i, 0, x) with the position ignored: the element goes to the end.
InsertAtEnd(s, i, x) == Append(s, x)

\* Array.prototype.splice(i, 0, x)
InsertAt(s, i, x) == SubSeq(s, 1, i) \o <<x>> \o SubSeq(s, i + 1, Len(s))

\* Array.prototype.splice(i, 1)
RemoveAt(s, i) == SubSeq(s, 1, i) \o SubSeq(s, i + 2, Len(s))

\* x is an element of the array.
Includes(s, x) == \E k \in 1..Len(s) : s[k] = x

\* indexOf(x, 1): the search skips the first element.
IndexOfFromSecond(s, x) ==
    IF \E k \in 2..Len(s) : s[k] = x
    THEN (CHOOSE k \in 2..Len(s) : s[k] = x /\ \A j \in 2..(k - 1) : s[j] # x) - 1
    ELSE 0 - 1

\* Array.prototype.indexOf: the first position of x, or -1
IndexOf(s, x) ==
    IF \E k \in 1..Len(s) : s[k] = x
    THEN (CHOOSE k \in 1..Len(s) : s[k] = x /\ \A j \in 1..(k - 1) : s[j] # x) - 1
    ELSE 0 - 1

\* --------------------------------------------------------- SModelElement.root
\* The getter walks the parent references.  "root": the root is returned;
\* "none": the chain ends and 'Element has no root' is thrown; "loop": the
\* chain is cyclic and the while loop never ends.  A chain of more than
\* NumElems child elements has visited one of them twice.
RECURSIVE RootWalk(_, _, _)
RootWalk(current, par, fuel) ==
    IF current = None THEN "none"
    ELSE IF current = Root THEN "root"
    ELSE IF fuel = 0 THEN "loop"
    ELSE RootWalk(par[current], par, fuel - 1)

GetRoot(element, par) == RootWalk(element, par, NumElems)

\* -------------------------------------------------------------- SModelIndex
\* contains(element)
Contains(map, ids, element) == ids[element] \in AllIds /\ map[ids[element]] # None

\* add(element).  s = [id, map, err]; err = "none" until an exception is
\* thrown, after which nothing more is assigned.  gen[element] is the id the
\* do/while loop around createRandomId ends with: by the loop condition it is
\* an id the map does not contain ("Infeasible" marks a gen that is not).
RECURSIVE IndexAdd(_, _, _, _)
RECURSIVE IndexAddChildren(_, _, _, _, _)
\* add(element) with createRandomId called once, without the do/while loop
\* that tries again while the index contains the id.
IndexAddNoRetry(element, s, ch, gen) ==
    IF s.id[element] # NoId /\ Contains(s.map, s.id, element)
    THEN [s EXCEPT !.err = "DuplicateIdentifier"]
    ELSE LET nid == IF s.id[element] = NoId THEN gen[element] ELSE s.id[element]
             s1 == [s EXCEPT !.id[element] = nid, !.map[nid] = element]
         IN  IndexAddChildren(ch[element], 1, s1, ch, gen)

IndexAdd(element, s, ch, gen) ==
    IF s.id[element] = NoId /\ s.map[gen[element]] # None
    THEN [s EXCEPT !.err = "Infeasible"]
    ELSE IF s.id[element] # NoId /\ Contains(s.map, s.id, element)
    THEN [s EXCEPT !.err = "DuplicateIdentifier"]
    ELSE LET nid == IF s.id[element] = NoId THEN gen[element] ELSE s.id[element]
             s1 == [s EXCEPT !.id[element] = nid, !.map[nid] = element]
         IN  IndexAddChildren(ch[element], 1, s1, ch, gen)

IndexAddChildren(seq, k, s, ch, gen) ==
    IF k > Len(seq) \/ s.err # "none" THEN s
    ELSE IndexAddChildren(seq, k + 1, IndexAdd(seq[k], s, ch, gen), ch, gen)

\* remove(element).  s = [map, err].  The recursion follows the children
\* arrays; on a cyclic children relation it never returns and the engine
\* throws RangeError (call stack exceeded).  An acyclic descent is at most
\* NumElems calls deep, so a deeper call is inside a cycle, and every element
\* the endless descent deletes has been deleted by then.
RECURSIVE IndexRemove(_, _, _, _, _)
RECURSIVE IndexRemoveChildren(_, _, _, _, _, _)
IndexRemove(element, s, ch, ids, depth) ==
    IF depth > NumElems + 1 THEN [s EXCEPT !.err = "RangeError"]
    ELSE LET s1 == IF ids[element] \in AllIds
                   THEN [s EXCEPT !.map[ids[element]] = None]
                   ELSE s
         IN  IndexRemoveChildren(ch[element], 1, s1, ch, ids, depth)

IndexRemoveChildren(seq, k, s, ch, ids, depth) ==
    IF k > Len(seq) \/ s.err # "none" THEN s
    ELSE IndexRemoveChildren(seq, k + 1,
                             IndexRemove(seq[k], s, ch, ids, depth + 1),
                             ch, ids, depth)

\* ------------------------------------------------------------------- Init
\* The ids the child elements are created with.
RECURSIVE SumLen(_, _)
SumLen(ch, S) ==
    IF S = {} THEN 0
    ELSE LET o == CHOOSE x \in S : TRUE IN Len(ch[o]) + SumLen(ch, S \ {o})

\* The ids the elements are created with: every element is given an id, and
\* some are given the same one.
GivenIdOf == [o \in Objs |-> IF o = Root THEN RootId
                             ELSE IF o % 3 = 2 THEN "b" ELSE "a"]

\* The ids the elements are created with when most are left without one.
UnsetIdOf == [o \in Objs |-> IF o = Root THEN RootId
                             ELSE IF o % 3 = 0 THEN "a" ELSE NoId]

\* new SModelRoot() with a new, empty SModelIndex, and the child elements as
\* constructed: no parent, no children.
TreeInitWith(ids) ==
    /\ children = [o \in Objs |-> <<>>]
    /\ parent = [e \in Elems |-> None]
    /\ id = ids
    /\ id2element = [i \in AllIds |-> None]
    /\ last = [op |-> "new", outcome |-> "ok", args |-> "valid"]

TreeInit == TreeInitWith(GivenIdOf)

AutoIdInit == TreeInitWith(UnsetIdOf)

\* A call that never returns leaves the (single-threaded) program stuck.
Running == last.outcome # "Hang"

\* ---------------------------------------------------- SParentElement.add
\* iopt is <<>> when the index argument is omitted and <<i>> otherwise.
Add(this, child, iopt) ==
    /\ Running
    /\ UNCHANGED schedVars
    /\ Len(children[this]) < MaxChildren
    /\ SumLen(children, Objs) < MaxEntries
    /\ LET n == Len(children[this])
           call == [op |-> "add",
                    args |-> IF iopt # <<>> /\ iopt[1] \notin 0..n
                             THEN "badIndex" ELSE "valid"]
       IN  IF iopt # <<>> /\ (iopt[1] < 0 \/ iopt[1] > n)
           THEN /\ last' = call @@ [outcome |-> "IndexOutOfBounds"]
                /\ UNCHANGED <<children, parent, id, id2element>>
           ELSE LET ch1 == [children EXCEPT ![this] =
                               IF iopt = <<>> THEN Append(@, child)
                               ELSE InsertAt(@, iopt[1], child)]
                    par1 == [parent EXCEPT ![child] = this]
                    rk == GetRoot(this, par1)
                IN  /\ children' = ch1
                    /\ parent' = par1
                    /\ IF rk # "root"
                       THEN /\ last' = call @@ [outcome |->
                                  IF rk = "loop" THEN "Hang" ELSE "DetachedElement"]
                            /\ UNCHANGED <<id, id2element>>
                       ELSE \E gen \in [{e \in Elems : id[e] = NoId} -> RandomIds] :
                              LET r == IndexAdd(child,
                                         [id |-> id, map |-> id2element, err |-> "none"],
                                         ch1, gen)
                              IN  /\ r.err # "Infeasible"
                                  /\ id' = r.id
                                  /\ id2element' = r.map
                                  /\ last' = call @@ [outcome |->
                                        IF r.err = "none" THEN "ok" ELSE r.err]

\* ------------------------------------------------- SParentElement.remove
Remove(this, child) ==
    /\ Running
    /\ UNCHANGED schedVars
    /\ LET i == IndexOf(children[this], child)
           call == [op |-> "remove",
                    args |-> IF Includes(children[this], child)
                             THEN "valid" ELSE "noChild"]
       IN  IF i < 0
           THEN /\ last' = call @@ [outcome |-> "ChildNotFound"]
                /\ UNCHANGED <<children, parent, id, id2element>>
           ELSE LET ch1 == [children EXCEPT ![this] = RemoveAt(@, i)]
                    par1 == [parent EXCEPT ![child] = None]
                    rk == GetRoot(this, par1)
                    r == IndexRemove(child, [map |-> id2element, err |-> "none"],
                                     ch1, id, 1)
                IN  /\ children' = ch1
                    /\ parent' = par1
                    /\ UNCHANGED id
                    /\ IF rk # "root"
                       THEN /\ last' = call @@ [outcome |->
                                  IF rk = "loop" THEN "Hang" ELSE "DetachedElement"]
                            /\ UNCHANGED id2element
                       ELSE /\ id2element' = r.map
                            /\ last' = call @@ [outcome |->
                                  IF r.err = "none" THEN "ok" ELSE r.err]

\* ---------------------------------------------- SParentElement.removeAll
\* s = [children, parent, map, err].  One detach of removeAll: the parent
\* property is deleted, then this.index is resolved and the child removed
\* from it.
Detach(this, c, s, ids) ==
    LET s1 == [s EXCEPT !.parent[c] = None]
        rk == GetRoot(this, s1.parent)
        r == IndexRemove(c, [map |-> s1.map, err |-> "none"], s1.children, ids, 1)
    IN  IF rk # "root"
        THEN [s1 EXCEPT !.err = IF rk = "loop" THEN "Hang" ELSE "DetachedElement"]
        ELSE [s1 EXCEPT !.map = r.map, !.err = r.err]

\* The loop of removeAll(filter): i runs from length - 1 down to 0.
RECURSIVE RemoveAllFiltered(_, _, _, _, _)
RemoveAllFiltered(this, F, i, s, ids) ==
    IF i < 0 \/ s.err # "none" THEN s
    ELSE LET c == s.children[this][i + 1]
         IN  IF c \notin F
             THEN RemoveAllFiltered(this, F, i - 1, s, ids)
             ELSE RemoveAllFiltered(this, F, i - 1,
                     Detach(this, c, [s EXCEPT !.children[this] = RemoveAt(@, i)], ids),
                     ids)

\* The forEach of removeAll(): the array is emptied after the loop.
RECURSIVE RemoveAllEach(_, _, _, _)
RemoveAllEach(this, k, s, ids) ==
    IF s.err # "none" THEN s
    ELSE IF k > Len(s.children[this]) THEN [s EXCEPT !.children[this] = <<>>]
    ELSE RemoveAllEach(this, k + 1, Detach(this, s.children[this][k], s, ids), ids)

\* filt is <<>> when no filter is given and <<F>> for a filter that holds of
\* exactly the elements of F.
RemoveAll(this, filt) ==
    /\ Running
    /\ UNCHANGED schedVars
    /\ LET s0 == [children |-> children, parent |-> parent,
                  map |-> id2element, err |-> "none"]
           r == IF filt # <<>>
                THEN RemoveAllFiltered(this, filt[1], Len(children[this]) - 1, s0, id)
                ELSE RemoveAllEach(this, 1, s0, id)
       IN  /\ children' = r.children
           /\ parent' = r.parent
           /\ id2element' = r.map
           /\ UNCHANGED id
           /\ last' = [op |-> "removeAll", args |-> "valid",
                       outcome |-> IF r.err = "none" THEN "ok" ELSE r.err]

\* --------------------------------------------------- SParentElement.move
Move(this, child, newIndex) ==
    /\ Running
    /\ UNCHANGED schedVars
    /\ LET i == IndexOf(children[this], child)
           call == [op |-> "move",
                    args |-> IF ~Includes(children[this], child) THEN "noChild"
                             ELSE IF newIndex \notin 0..(Len(children[this]) - 1)
                             THEN "badIndex" ELSE "valid"]
       IN  IF i = 0 - 1
           THEN /\ last' = call @@ [outcome |-> "ChildNotFound"]
                /\ UNCHANGED <<children, parent, id, id2element>>
           ELSE IF newIndex < 0 \/ newIndex > Len(children[this]) - 1
           THEN /\ last' = call @@ [outcome |-> "IndexOutOfBounds"]
                /\ UNCHANGED <<children, parent, id, id2element>>
           ELSE /\ children' = [children EXCEPT ![this] =
                                   InsertAt(RemoveAt(@, i), newIndex, child)]
                /\ last' = call @@ [outcome |-> "ok"]
                /\ UNCHANGED <<parent, id, id2element>>

\* The index arguments tried on a parent: every valid position, one below
\* and one above.
IndexArgs(this) == (0 - 1)..(Len(children[this]) + 1)

\* The optional index argument of add.
OptIndexArgs(this) == {<<>>} \cup {<<i>> : i \in IndexArgs(this)}

\* The filters tried on a parent: none, and one for every set of its children
\* a predicate can hold of.
FilterArgs(this) ==
    {<<>>} \cup {<<F>> : F \in SUBSET {children[this][k] : k \in 1..Len(children[this])}}

TreeNext ==
    \/ \E this \in Objs, child \in Elems :
         \E iopt \in OptIndexArgs(this) : Add(this, child, iopt)
    \/ \E this \in Objs, child \in Elems : Remove(this, child)
    \/ \E this \in Objs :
         \E filt \in FilterArgs(this) : RemoveAll(this, filt)
    \/ \E this \in Objs, child \in Elems :
         \E newIndex \in IndexArgs(this) : Move(this, child, newIndex)

\* The calls that register and unregister elements, made on a tree whose
\* elements were created without an id.
AutoIdNext ==
    \/ \E this \in Objs, child \in Elems :
         \E iopt \in OptIndexArgs(this) : Add(this, child, iopt)
    \/ \E this \in Objs, child \in Elems : Remove(this, child)

\* ======================================================== tree properties
\* The children of an object, as a set.
Kids(o, ch) == {ch[o][k] : k \in 1..Len(ch[o])}

\* The objects reachable from those of S in at most n steps of the children
\* relation ch.
RECURSIVE Reach(_, _, _)
Reach(S, ch, n) ==
    IF n = 0 THEN S
    ELSE Reach(S \cup UNION {Kids(o, ch) : o \in S}, ch, n - 1)

\* An element and its descendants.
Subtree(e, ch) == Reach({e}, ch, NumElems)

\* The elements reachable from the root (the root is no child element).
Attached == Reach({Root}, children, NumElems) \ {Root}

\* The elements the index holds, and the ids it holds them under.
Registered(map) == {map[i] : i \in AllIds} \ {None}
RegisteredIds(map) == {i \in AllIds : map[i] # None}

\* How often an element occurs in the children arrays.
RECURSIVE Occurrences(_, _)
Occurrences(e, S) ==
    IF S = {} THEN 0
    ELSE LET o == CHOOSE x \in S : TRUE
         IN  Cardinality({k \in 1..Len(children[o]) : children[o][k] = e})
             + Occurrences(e, S \ {o})

\* C1 -- after every add, remove, removeAll and move call, failed ones
\* included, no two elements reachable from the root have the same id (I1) and
\* the index holds exactly the elements reachable from the root (I3).
C1_UniqueIdsAndExactIndex ==
    Running =>
        /\ \A x \in Attached \cup {Root} : \A y \in Attached :
              x # y => id[x] # id[y]
        /\ Registered(id2element) = Attached

\* C7 -- an add that fails with DuplicateIdentifier leaves the parent's
\* children array and the child's parent reference as they were.
C7_DuplicateAddLeavesNothingAttached ==
    [][\A this \in Objs, child \in Elems :
         \A iopt \in OptIndexArgs(this) :
            (Add(this, child, iopt) /\ last'.outcome = "DuplicateIdentifier")
            => (children'[this] = children[this] /\ parent'[child] = parent[child])]_vars

\* Some element of the subtree has an id the index holds, or two of its
\* elements have the same id.
HasDuplicate(child, ch) ==
    \/ \E x \in Subtree(child, ch) : Contains(id2element, id, x)
    \/ \E x \in Subtree(child, ch) : \E y \in Subtree(child, ch) :
          x # y /\ id[x] # NoId /\ id[x] = id[y]

\* C8 -- an add that registers a subtree in which some id is already in the
\* index or occurs twice fails with DuplicateIdentifier and leaves the index
\* as it was.
C8_DuplicateInSubtreeLeavesIndexUnchanged ==
    [][\A this \in Objs, child \in Elems :
         \A iopt \in OptIndexArgs(this) :
            ( /\ Add(this, child, iopt)
              /\ last'.outcome \notin {"IndexOutOfBounds", "DetachedElement", "Hang"}
              /\ HasDuplicate(child, children') )
            => (last'.outcome = "DuplicateIdentifier" /\ id2element' = id2element)]_vars

\* C9 -- after every call (I2) an element occurs at most once in all the
\* children arrays, its parent reference is the owner of the array it occurs
\* in, and an element that occurs in none has no parent reference.
C9_OneParentOneOccurrence ==
    Running =>
        \A e \in Elems :
            /\ Occurrences(e, Objs) <= 1
            /\ \A o \in Objs : e \in Kids(o, children) => parent[e] = o
            /\ Occurrences(e, Objs) = 0 => parent[e] = None

\* C10 -- a successful add of a subtree of N elements makes the index hold N
\* more ids, every element of the subtree being found under its id; a
\* successful remove of a subtree of N elements makes it hold N fewer, none
\* of them being found any more.
C10_AddAndRemoveCountSubtree ==
    [][/\ \A this \in Objs, child \in Elems :
            \A iopt \in OptIndexArgs(this) :
               (Add(this, child, iopt) /\ last'.outcome = "ok")
               => /\ Cardinality(RegisteredIds(id2element'))
                       = Cardinality(RegisteredIds(id2element))
                         + Cardinality(Subtree(child, children'))
                  /\ \A x \in Subtree(child, children') : id2element'[id'[x]] = x
       /\ \A this \in Objs, child \in Elems :
            (Remove(this, child) /\ last'.outcome = "ok")
            => /\ Cardinality(RegisteredIds(id2element'))
                    = Cardinality(RegisteredIds(id2element))
                      - Cardinality(Subtree(child, children'))
               /\ \A x \in Subtree(child, children') :
                     x \notin Registered(id2element')]_vars

\* C11 -- after a successful add the child's parent is the receiver, the child
\* is the last of the receiver's children when no index is given and at the
\* given position otherwise, the children that were there before keep their
\* relative order, and the root is resolved from the child as from the parent.
\* (The receiver of an add that did not fail on its index argument is an
\* object whose children array has changed.)
C11_AddPlacesChild ==
    [][(last'.op = "add" /\ last'.outcome = "ok") =>
       \A this \in {o \in Objs : children'[o] # children[o]}, child \in Elems :
         \A iopt \in OptIndexArgs(this) :
            Add(this, child, iopt)
            => LET new == children'[this]
                   pos == IF iopt = <<>> THEN Len(new) - 1 ELSE iopt[1]
               IN  /\ parent'[child] = this
                   /\ Len(new) = Len(children[this]) + 1
                   /\ iopt = <<>> => new[Len(new)] = child
                   /\ new[pos + 1] = child
                   /\ RemoveAt(new, pos) = children[this]
                   /\ GetRoot(this, parent') = "root"
                   /\ GetRoot(child, parent') = GetRoot(this, parent')]_vars

\* A successful add has put element 2 in front of element 1 under the root.
C11_Witness ==
    /\ last.op = "add" /\ last.outcome = "ok"
    /\ children[Root] = <<2, 1>>
    /\ parent[1] = Root /\ parent[2] = Root
    /\ id2element["a"] = 1 /\ id2element["b"] = 2

\* C12 -- add fails with IndexOutOfBounds exactly when the index given is
\* negative or greater than the length, remove and move fail with
\* ChildNotFound exactly when the child is not among the receiver's
\* children, and a call that fails so leaves the children arrays, the parent
\* references and the index as they were.
C12_PreconditionFailuresChangeNothing ==
    /\ [](/\ last.op = "add" =>
              (last.outcome = "IndexOutOfBounds" <=> last.args = "badIndex")
          /\ last.op \in {"remove", "move"} =>
              (last.outcome = "ChildNotFound" <=> last.args = "noChild"))
    /\ [][last'.outcome \in {"IndexOutOfBounds", "ChildNotFound"}
            => UNCHANGED <<children, parent, id, id2element>>]_vars

\* An add with an index out of range has failed on a root that has two
\* registered children, which are still there.
C12_Witness ==
    /\ last.op = "add" /\ last.outcome = "IndexOutOfBounds"
    /\ children[Root] = <<1, 2>>
    /\ parent[1] = Root /\ parent[2] = Root
    /\ id2element["a"] = 1 /\ id2element["b"] = 2

\* C13 -- a move of a child the receiver has succeeds exactly when the new
\* index is between 0 and length - 1; after it the child is at the new index,
\* the other children are in the order they were in, the index and the parent
\* references are as they were, and a move of a child to a position it is
\* at leaves the array as it was.
C13_MoveReorders ==
    /\ []((last.op = "move" /\ last.args # "noChild") =>
             (last.outcome = "ok" <=> last.args = "valid"))
    /\ [][(last'.op = "move" /\ last'.outcome = "ok") =>
            /\ UNCHANGED <<parent, id, id2element>>
            /\ \A this \in Objs, child \in Elems :
                 \A newIndex \in IndexArgs(this) :
                    Move(this, child, newIndex) =>
                       LET old == children[this]
                           new == children'[this]
                       IN  /\ new[newIndex + 1] = child
                           /\ \E k \in 1..Len(old) :
                                 /\ old[k] = child
                                 /\ RemoveAt(new, newIndex) = RemoveAt(old, k - 1)
                           /\ old[newIndex + 1] = child => new = old
                           /\ \A o \in Objs \ {this} : children'[o] = children[o]]_vars

\* C14 -- a removeAll without a predicate leaves the receiver without
\* children; a removeAll takes away exactly the children the predicate holds
\* of (all, without one): each of them has no parent reference afterwards and
\* neither it nor a descendant of it is registered, and the children that
\* remain are in the order they were in, with the parent reference they had,
\* and registered if they were.
C14_RemoveAllDetachesSelected ==
    [][(last'.op = "removeAll" /\ last'.outcome = "ok") =>
       \A this \in Objs :
         \A filt \in FilterArgs(this) :
            RemoveAll(this, filt) =>
               LET old == children[this]
                   new == children'[this]
                   gone == IF filt = <<>> THEN Kids(this, children) ELSE filt[1]
               IN  /\ filt = <<>> => new = <<>>
                   /\ new = SelectSeq(old, LAMBDA c : c \notin gone)
                   /\ \A c \in gone :
                        /\ parent'[c] = None
                        /\ \A x \in Subtree(c, children') :
                              x \notin Registered(id2element')
                   /\ \A c \in Kids(this, children) \ gone :
                        /\ parent'[c] = parent[c]
                        /\ id2element[id[c]] = c => id2element'[id[c]] = c]_vars

C20_DetachedParentChangesNothing ==
    [][(last'.op \in {"add", "remove"} /\ last'.args = "valid"
          /\ last'.outcome # "Hang") =>
       \A this \in {e \in Elems : GetRoot(e, parent) = "none"}, child \in Elems :
          /\ \A iopt \in OptIndexArgs(this) :
                Add(this, child, iopt) =>
                   /\ last'.outcome = "DetachedElement"
                   /\ children'[this] = children[this]
                   /\ parent'[child] = parent[child]
          /\ Remove(this, child) =>
                /\ last'.outcome = "DetachedElement"
                /\ children'[this] = children[this]
                /\ parent'[child] = parent[child]]_vars

\* The ids under which the index holds an element that is none of those in S.
IdsOfOthers(S) == {i \in AllIds : id2element[i] # None /\ id2element[i] \notin S}

\* C21 -- a remove or removeAll call unregisters only elements of the subtrees
\* it detaches: an id under which the index holds an element that is neither
\* a removed child nor a descendant of one is looked up to the same element
\* after the call as before it.
C21_RemoveUnregistersOnlySubtree ==
    [][/\ last'.op = "remove" =>
            \A this \in Objs, child \in Elems :
               Remove(this, child) =>
                  \A i \in IdsOfOthers(Subtree(child, children)) :
                     id2element'[i] = id2element[i]
       /\ last'.op = "removeAll" =>
            \A this \in Objs :
               \A filt \in FilterArgs(this) :
                  RemoveAll(this, filt) =>
                     LET gone == IF filt = <<>> THEN Kids(this, children)
                                 ELSE filt[1]
                     IN  \A i \in IdsOfOthers(UNION {Subtree(c, children) : c \in gone}) :
                            id2element'[i] = id2element[i]]_vars

\* ======================================================== ViewerCache
\* The delegate's entry points, in the order the flush callback visits them.
EntryPoints == <<"updateHidden", "update", "updatePopup">>
Entries == {EntryPoints[k] : k \in 1..Len(EntryPoints)}
Position(entry) == CHOOSE k \in 1..Len(EntryPoints) : EntryPoints[k] = entry

\* The three cache fields, by the entry point each is flushed to.
Slots == [e \in Entries |->
            IF e = "updateHidden" THEN cachedHiddenModelRoot
            ELSE IF e = "update" THEN cachedModelRoot
            ELSE cachedPopup]

\* isCacheEmpty() with the test of cachedPopup forgotten.
IsCacheEmptyIgnoringPopup ==
    cachedModelRoot = None /\ cachedHiddenModelRoot = None

\* isCacheEmpty() with the test of cachedModelRoot forgotten.
IsCacheEmptyIgnoringPrimary ==
    cachedHiddenModelRoot = None /\ cachedPopup = None

\* isCacheEmpty() answering true whatever the fields hold: every update*
\* call schedules a flush.
IsCacheEmptyAlways == TRUE

\* isCacheEmpty()
IsCacheEmpty ==
    cachedModelRoot = None /\ cachedHiddenModelRoot = None /\ cachedPopup = None

\* scheduleUpdate(): one more callback is handed to syncer.onEndOfNextFrame.
ScheduleUpdate == armed' = armed + 1 /\ arms' = arms + 1

\* What every update* call does besides assigning its field: the emptiness
\* test made before the assignment decides whether a callback is armed.
\* The call may come from outside (pc = "idle") or from the delegate while a
\* flush is inside one of its entry points.
Push(entry) ==
    /\ pushes < MaxPush
    /\ pushes' = pushes + 1
    /\ pushed' = [pushed EXCEPT ![entry] = pushes + 1]
    /\ IF IsCacheEmpty THEN ScheduleUpdate ELSE UNCHANGED <<armed, arms>>
    /\ UNCHANGED <<due, pc, frame, flushes, delivered, flushEnd,
                   atBoundary, atPrevBoundary>>
    /\ UNCHANGED treeVars

\* updatePopup(model)
UpdatePopup ==
    /\ Push("updatePopup")
    /\ cachedPopup' = pushes + 1
    /\ UNCHANGED <<cachedModelRoot, cachedHiddenModelRoot>>

\* update(model)
Update ==
    /\ Push("update")
    /\ cachedModelRoot' = pushes + 1
    /\ UNCHANGED <<cachedHiddenModelRoot, cachedPopup>>

\* updateHidden(hiddenModel)
UpdateHidden ==
    /\ Push("updateHidden")
    /\ cachedHiddenModelRoot' = pushes + 1
    /\ UNCHANGED <<cachedModelRoot, cachedPopup>>

\* The flush callback with the if statements for update and updateHidden in
\* the other order.
RECURSIVE NextEntryPrimaryFirst(_, _)
NextEntryPrimaryFirst(k, slots) ==
    LET order == <<"update", "updateHidden", "updatePopup">>
    IN  IF k > Len(order) THEN "idle"
        ELSE IF slots[order[k]] # None THEN order[k]
        ELSE NextEntryPrimaryFirst(k + 1, slots)

\* The flush callback: from the k-th if statement on, the first entry point
\* whose cache field holds a snapshot ("idle": there is none, the callback
\* returns).
RECURSIVE NextEntry(_, _)
NextEntry(k, slots) ==
    IF k > Len(EntryPoints) THEN "idle"
    ELSE IF slots[EntryPoints[k]] # None THEN EntryPoints[k]
    ELSE NextEntry(k + 1, slots)

\* The callbacks of one frame are invoked one after the other.  n are still
\* to be invoked, ran have been; a callback that finds every field empty
\* returns at once, one that finds a snapshot is inside the delegate next.
RECURSIVE RunCallbacks(_, _, _)
RunCallbacks(n, ran, slots) ==
    IF n = 0 THEN [pc |-> "idle", due |-> 0, ran |-> ran]
    ELSE IF NextEntry(1, slots) # "idle"
    THEN [pc |-> NextEntry(1, slots), due |-> n - 1, ran |-> ran + 1]
    ELSE RunCallbacks(n - 1, ran + 1, slots)

\* The record of one delegate call: the entry point, the snapshot passed,
\* the snapshot most recently pushed for that entry point at that moment,
\* and the flush and the frame it is made in.
Call(entry, slots, fl, fr) ==
    [entry |-> entry, model |-> slots[entry], newest |-> pushed[entry],
     flush |-> fl, frame |-> fr]

\* The flush goes on from state r = [pc, due, ran] with the fields as in slots,
\* in frame fr.
Proceed(r, slots, fr) ==
    /\ pc' = r.pc
    /\ due' = r.due
    /\ flushes' = flushes + r.ran
    /\ delivered' = IF r.pc = "idle" THEN delivered
                    ELSE Append(delivered, Call(r.pc, slots, flushes + r.ran, fr))

\* The frame notifier: at the end of a frame every callback armed during it is
\* invoked once.
FrameEnd ==
    /\ pc = "idle"
    /\ armed > 0
    /\ frame' = frame + 1
    /\ armed' = 0
    /\ Proceed(RunCallbacks(armed, 0, Slots), Slots, frame + 1)
    /\ flushEnd' = IF RunCallbacks(armed, 0, Slots).pc = "idle" THEN "returned" ELSE flushEnd
    /\ atBoundary' = pushed
    /\ atPrevBoundary' = atBoundary
    /\ UNCHANGED <<cacheVars, arms, pushes, pushed>>
    /\ UNCHANGED treeVars

\* The body of the flush callback after a delegate call has returned: the
\* field is cleared and the following if statements are evaluated.
AfterReturn(slots) ==
    LET nx == NextEntry(Position(pc) + 1, slots)
    IN  IF nx # "idle" THEN [pc |-> nx, due |-> due, ran |-> 0]
        ELSE RunCallbacks(due, 0, slots)

\* The delegate's entry point returns.
DelegateReturn ==
    /\ pc # "idle"
    /\ LET slots == [Slots EXCEPT ![pc] = None]
       IN  /\ cachedHiddenModelRoot' = slots["updateHidden"]
           /\ cachedModelRoot' = slots["update"]
           /\ cachedPopup' = slots["updatePopup"]
           /\ Proceed(AfterReturn(slots), slots, frame)
           /\ flushEnd' = IF NextEntry(Position(pc) + 1, slots) = "idle"
                          THEN "returned" ELSE flushEnd
    /\ UNCHANGED <<armed, arms, frame, pushes, pushed, atBoundary, atPrevBoundary>>
    /\ UNCHANGED treeVars

\* The delegate's entry point throws: the exception leaves the callback, and
\* no statement after the call is executed.
DelegateThrow ==
    /\ pc # "idle"
    /\ Proceed(RunCallbacks(due, 0, Slots), Slots, frame)
    /\ flushEnd' = "threw"
    /\ UNCHANGED <<cacheVars, armed, arms, frame, pushes, pushed,
                   atBoundary, atPrevBoundary>>
    /\ UNCHANGED treeVars

SchedInit ==
    /\ cachedModelRoot = None
    /\ cachedHiddenModelRoot = None
    /\ cachedPopup = None
    /\ armed = 0
    /\ arms = 0
    /\ due = 0
    /\ pc = "idle"
    /\ frame = 0
    /\ flushes = 0
    /\ pushes = 0
    /\ pushed = [e \in Entries |-> None]
    /\ delivered = <<>>
    /\ flushEnd = "none"
    /\ atBoundary = [e \in Entries |-> None]
    /\ atPrevBoundary = [e \in Entries |-> None]

SchedNext ==
    \/ UpdatePopup
    \/ Update
    \/ UpdateHidden
    \/ FrameEnd
    \/ DelegateReturn
    \/ DelegateThrow

\* ======================================================== scheduler properties
\* The delegate has been called at entry with snapshot n.
Delivered(entry, n) ==
    \E i \in 1..Len(delivered) : delivered[i].entry = entry /\ delivered[i].model = n

\* The number of callbacks the frame notifier holds that are still to be invoked.
PendingCallbacks == armed + due

\* The step is an update, updateHidden or updatePopup call.
IsUpdateCall == pushes' # pushes

\* The step makes a delegate call.
IsDelegateCall == Len(delivered') = Len(delivered) + 1

\* The delegate calls a flush has made at an entry point.
CallsOf(fl, entry) ==
    {i \in 1..Len(delivered) :
        delivered[i].flush = fl /\ delivered[i].entry = entry}

\* C2 -- last write wins: when snapshots were pushed for an entry point
\* between two frame boundaries, the flush started at the second one calls
\* that entry point exactly once, with the snapshot most recently pushed for
\* it, and with none of the earlier ones.
C2_LastWriteWins ==
    (pc = "idle" /\ frame >= 1) =>
        \A e \in Entries :
            atBoundary[e] # atPrevBoundary[e] =>
                /\ Cardinality(CallsOf(flushes, e)) = 1
                /\ \A i \in CallsOf(flushes, e) :
                      /\ delivered[i].model = delivered[i].newest
                      /\ delivered[i].model >= atBoundary[e]

\* C3 -- the frame notifier never holds more than one flush callback, and an
\* update* call arms one exactly when all three cache fields were empty
\* before it.
C3_AtMostOneCallbackArmed ==
    /\ [](PendingCallbacks <= 1)
    /\ [][IsUpdateCall =>
            IF \A e \in Entries : Slots[e] = None
            THEN armed' = armed + 1
            ELSE armed' = armed]_vars

\* Three update* calls, one for each entry point, made with all fields empty
\* before the first: one callback is armed.
C3_Witness ==
    /\ pushes = 3
    /\ frame = 0
    /\ \A e \in Entries : Slots[e] # None
    /\ armed = 1

\* C4 -- eventual delivery: a snapshot pending in a cache field is eventually
\* passed to the delegate or replaced by a newer one, and in the end the
\* snapshot most recently pushed for every entry point has been delivered.
C4_EventualDelivery ==
    /\ \A e \in Entries : \A n \in 1..MaxPush :
          (Slots[e] = n) ~> (Delivered(e, n) \/ pushed[e] # n)
    /\ <>[](\A e \in Entries : pushed[e] # None => Delivered(e, pushed[e]))

C6_OneFlushPerFrame ==
    /\ [](/\ flushes <= frame
          /\ \A i \in 1..Len(delivered) : \A j \in 1..Len(delivered) :
               (i # j /\ delivered[i].entry = delivered[j].entry)
               => delivered[i].frame # delivered[j].frame)
    /\ [][IsUpdateCall => (delivered' = delivered /\ pc' = pc)]_vars

\* Four update calls have been made and two frames have ended; update was
\* called once in each frame.
C6_Witness ==
    /\ pushes = 4
    /\ frame = 2
    /\ Len(delivered) = 2
    /\ delivered[1].entry = "update" /\ delivered[1].frame = 1
    /\ delivered[2].entry = "update" /\ delivered[2].frame = 2

\* The step is the return of the flush callback: the delegate call it was
\* in returns and no field after it holds a snapshot.
FlushReturns ==
    /\ DelegateReturn
    /\ NextEntry(Position(pc) + 1, [Slots EXCEPT ![pc] = None]) = "idle"

\* C15 -- when a flush callback returns all three cache fields are empty, and
\* the next update* call made after it arms one callback; the flushes are as
\* many as the scheduleUpdate calls, once every armed callback has run.
C15_FlushEmptiesAndRearms ==
    /\ [][FlushReturns =>
            (cachedModelRoot' = None /\ cachedHiddenModelRoot' = None
               /\ cachedPopup' = None)]_vars
    /\ [][(IsUpdateCall /\ pc = "idle" /\ flushEnd = "returned"
              /\ armed = 0 /\ due = 0)
            => (armed' = 1 /\ arms' = arms + 1)]_vars
    /\ [](flushes <= arms /\ (armed = 0 /\ due = 0 => flushes = arms))

\* C16 -- monotonic delivery: the snapshots the delegate is passed at one
\* entry point are in the order in which they were pushed for it; none is
\* passed after one pushed later, and none is passed twice.
C16_MonotonicDelivery ==
    \A i \in 1..Len(delivered) : \A j \in 1..Len(delivered) :
        (i < j /\ delivered[i].entry = delivered[j].entry)
        => delivered[i].model < delivered[j].model

\* Two flushes have called update, with the first and the third snapshot: the
\* second was pushed between them and never passed on.
C16_Witness ==
    /\ pc = "idle"
    /\ pushes = 3
    /\ Len(delivered) = 2
    /\ delivered[1].entry = "update" /\ delivered[1].model = 1
    /\ delivered[2].entry = "update" /\ delivered[2].model = 3
    /\ delivered[1].flush < delivered[2].flush
    /\ pushed["update"] = 3

\* C17 -- a delegate that throws during a flush does not corrupt the cache:
\* after the flush that failed, a callback is armed whenever a field holds a
\* snapshot, and every snapshot in a field is eventually passed to the
\* delegate or replaced by a newer one.
C17_ThrowKeepsFlushArmed ==
    /\ []((flushEnd = "threw" /\ pc = "idle") =>
             ((\E e \in Entries : Slots[e] # None) => PendingCallbacks > 0))
    /\ \A e \in Entries : \A n \in 1..MaxPush :
          (flushEnd = "threw" /\ pc = "idle" /\ Slots[e] = n /\ delivered[Len(delivered)].model # n)
             ~> (pushed[e] # n \/ \E i \in 1..Len(delivered) :
                                    /\ delivered[i].entry = e
                                    /\ delivered[i].model = n)

\* C19 -- an update* call made from inside a delegate entry point during a
\* flush is not lost: the snapshot it pushes is passed to the delegate, in
\* this flush or a later one, unless a newer one replaces it; and the flush
\* callback never returns leaving a field non-empty with no callback armed.
C19_ReentrantUpdateNotLost ==
    /\ [][FlushReturns =>
            ((cachedModelRoot' # None \/ cachedHiddenModelRoot' # None
                \/ cachedPopup' # None) => armed' + due' > 0)]_vars
    /\ \A e \in Entries : \A n \in 1..MaxPush :
          (pc # "idle" /\ pushed[e] = n /\ atBoundary[e] # n)
             ~> (pushed[e] # n \/ \E i \in 1..Len(delivered) :
                                    /\ delivered[i].entry = e
                                    /\ delivered[i].model = n)

\* ======================================================== specifications
Init == TreeInit /\ SchedInit

TreeSpec == Init /\ [][TreeNext]_vars

AutoInit == AutoIdInit /\ SchedInit

AutoIdSpec == AutoInit /\ [][AutoIdNext]_vars

SchedSpec == Init /\ [][SchedNext]_vars

\* The frame notifier invokes every armed callback, and a delegate call ends.
SchedFairSpec ==
    SchedSpec /\ WF_vars(FrameEnd) /\ WF_vars(DelegateReturn \/ DelegateThrow)

====
